---------------------------- MODULE Spec2Model ----------------------------
(***************************************************************************)
(* A model of local-repo-search: the GitHub pagination stack of utils.py,  *)
(* the repository catalog and clone loop of clone_orgs.py, and the keyword *)
(* scanner and tree walk of search.py.                                     *)
(*                                                                         *)
(* Python strings are modelled as sequences of characters, so that split,  *)
(* strip, replace, count and lower are computed the way the interpreter    *)
(* computes them.                                                          *)
(***************************************************************************)
EXTENDS Integers, Sequences, FiniteSets, TLC

VARIABLES
    pc,             \* where the operation under way stands
    \* github_pagination, called on its own
    link_string,    \* the header string of the current response
    linkspec,       \* what the server put in it: [rels, page, shape]
    pagelinks,      \* the dictionary the last call returned
    ncalls,         \* calls made so far
    \* github_allpages and github_rest_api
    endpoint,       \* the endpoint argument of the call
    page_endpoint,  \* endpoint of the next page to fetch
    payload,        \* the accumulated data set
    state,          \* the caller's state object
    state_at_call,  \* the state object as it was when the call began
    listing,        \* the server's listing: [npages, shape]
    requests,       \* the URLs sess.get was called with, in order
    served,         \* the responses received, in order
    console,        \* what was printed
    \* repolist
    cachefile,      \* <org>/repodata.json: [exists, data]
    repodata,       \* the raw listing repolist worked from
    catalog,        \* the list repolist returned
    api_calls,      \* calls of github_allpages made by repolist
    refresh_arg,    \* the refresh argument of the last call of repolist
    cache_at_call,  \* the cache file as that call found it
    \* org_clone
    overwrite,      \* SETTINGS["overwrite"] of the run under way
    modes,          \* the overwrite setting of every run started
    batch_of,       \* the batch (execution of the script) every run is part of
    skiplist,       \* the lines of skiplist.txt, lower-cased
    org_folder,     \* whether <folder>/<org> exists
    folders,        \* <folder>/<org>/<repo>: "absent", "empty", "nonempty", "file"
    logfile,        \* logfile.csv: [exists, data]
    idx,            \* position of the loop in the catalog
    cloned,         \* the calls of Repo.clone_from: [run, repo, ok]
    folders_after_first, \* folders as the first run left them
    skipfile,       \* the lines of skiplist.txt
    github_repos,   \* the organization's repositories on GitHub
    \* search_file
    words,          \* SETTINGS["words"]
    file_content,   \* what the file holds
    hit_counts,     \* the dictionary search_file returned
    \* search_repos
    settings_folder,\* SETTINGS["folder"], the cache root
    ossep,          \* os.sep
    pending,        \* directories os.walk has yet to yield, next one first
    ndirs,          \* directories of the tree seen so far
    nfiles,         \* files of the tree seen so far
    repo_totals,    \* the accumulator
    matches_file,   \* matches.csv: [header, rows]
    repos_file,     \* repos.csv: [header, rows]
    visited,        \* what os.walk yielded: [root, depth]
    scanned,        \* the calls of search_file: [filename, content, hits, at]
    flushes,        \* the calls of write_repo: [data, at, last]
    handles,        \* the file objects of matches.csv and repos.csv: [matches, repos]
    \* file_url, called on its own
    local_path,     \* the local file or folder: [root, sep, org, repo, path]
    github_url      \* what file_url returned for it

linkvars == << link_string, linkspec >>

callvars == << pagelinks, ncalls >>

catvars == << cachefile, repodata, catalog, api_calls, refresh_arg, cache_at_call >>

clonevars == << overwrite, modes, batch_of, skiplist, org_folder, folders, logfile, idx,
                cloned, folders_after_first, skipfile, github_repos >>

scanvars == << words, file_content, hit_counts >>

walkvars == << settings_folder, ossep, pending, ndirs, nfiles, repo_totals,
              matches_file, repos_file, visited, scanned, flushes, handles,
              local_path, github_url >>

\* what the API stack does not touch
beyond_api == << catvars, clonevars, scanvars, walkvars >>

pagevars == << state, endpoint, page_endpoint, payload, state_at_call,
               listing, requests, served, console >>

(***************************************************************************)
(* Python str primitives                                                   *)
(***************************************************************************)

\* s[i:] for a 0-based i within 0..len(s)
DropFirst(s, n) == IF n >= Len(s) THEN << >> ELSE SubSeq(s, n + 1, Len(s))

\* s[:n]
TakeFirst(s, n) == IF n <= 0 THEN << >> ELSE SubSeq(s, 1, IF n > Len(s) THEN Len(s) ELSE n)

\* s.startswith(sub)
StartsWith(s, sub) == Len(sub) <= Len(s) /\ SubSeq(s, 1, Len(sub)) = sub

\* s.endswith(sub)
EndsWith(s, sub) ==
    Len(sub) <= Len(s) /\ SubSeq(s, Len(s) - Len(sub) + 1, Len(s)) = sub

\* sub in s
RECURSIVE Contains(_, _)
Contains(s, sub) ==
    IF Len(sub) > Len(s) THEN FALSE
    ELSE IF StartsWith(s, sub) THEN TRUE
    ELSE Contains(Tail(s), sub)

\* s.split(sep), sep not empty: the parts between the occurrences of sep,
\* found left to right without overlap; always at least one part.
RECURSIVE SplitFrom(_, _, _)
SplitFrom(s, sep, cur) ==
    IF s = << >> THEN << cur >>
    ELSE IF StartsWith(s, sep)
         THEN << cur >> \o SplitFrom(DropFirst(s, Len(sep)), sep, << >>)
         ELSE SplitFrom(Tail(s), sep, Append(cur, Head(s)))

Split(s, sep) == SplitFrom(s, sep, << >>)

\* sep.join(parts)
RECURSIVE Join(_, _)
Join(sep, parts) ==
    IF parts = << >> THEN << >>
    ELSE IF Len(parts) = 1 THEN parts[1]
    ELSE parts[1] \o sep \o Join(sep, Tail(parts))

\* s.replace(old, new), old not empty: every occurrence, left to right,
\* without overlap, wherever in s it is.
RECURSIVE Replace(_, _, _)
Replace(s, old, new) ==
    IF s = << >> THEN << >>
    ELSE IF StartsWith(s, old)
         THEN new \o Replace(DropFirst(s, Len(old)), old, new)
         ELSE << Head(s) >> \o Replace(Tail(s), old, new)

\* s.count(sub): occurrences found left to right without overlap;
\* len(s) + 1 for the empty sub.
RECURSIVE CountFrom(_, _)
CountFrom(s, sub) ==
    IF Len(sub) > Len(s) THEN 0
    ELSE IF StartsWith(s, sub)
         THEN 1 + CountFrom(DropFirst(s, Len(sub)), sub)
         ELSE CountFrom(Tail(s), sub)

Count(s, sub) == IF sub = << >> THEN Len(s) + 1 ELSE CountFrom(s, sub)

\* s.strip(): whitespace removed at both ends
RECURSIVE LStrip(_)
LStrip(s) == IF s # << >> /\ Head(s) = " " THEN LStrip(Tail(s)) ELSE s

RECURSIVE RStrip(_)
RStrip(s) ==
    IF s # << >> /\ s[Len(s)] = " " THEN RStrip(SubSeq(s, 1, Len(s) - 1)) ELSE s

Strip(s) == RStrip(LStrip(s))

\* s[1:-1]
Inner(s) == IF Len(s) <= 2 THEN << >> ELSE SubSeq(s, 2, Len(s) - 1)

\* parts[-1]
Last(parts) == parts[Len(parts)]

\* str.lower() of one character (the letters the model's alphabets hold)
LowerChar(c) ==
    CASE c = "A" -> "a" [] c = "B" -> "b" [] c = "F" -> "f" [] c = "O" -> "o"
      [] c = "T" -> "t" [] c = "D" -> "d" [] c = "R" -> "r" [] c = "L" -> "l"
      [] c = ".GO" -> ".go"
      [] OTHER -> c

\* s.lower()
Lower(s) == [i \in 1..Len(s) |-> LowerChar(s[i])]

\* s < t in Python's order on str: lexicographic by code point (ASCII
\* capitals before small letters, digits before both)
CodePoint(c) ==
    CASE c = "0" -> 48 [] c = "1" -> 49 [] c = "2" -> 50
      [] c = "A" -> 65 [] c = "B" -> 66 [] c = "a" -> 97 [] c = "b" -> 98
      [] OTHER -> 127

RECURSIVE StrLess(_, _)
StrLess(s, t) ==
    IF t = << >> THEN FALSE
    ELSE IF s = << >> THEN TRUE
    ELSE IF Head(s) # Head(t) THEN CodePoint(Head(s)) < CodePoint(Head(t))
    ELSE StrLess(Tail(s), Tail(t))


(***************************************************************************)
(* Python values                                                           *)
(*                                                                         *)
(* A str is a sequence whose elements are its characters; a run of         *)
(* characters that no operation of the program ever splits (a host name, a *)
(* relation name, a number) may be written as one element.  None and the   *)
(* int 0 are one-element sequences whose element is no character, so that  *)
(* they differ from every str, the empty str and "0" included.             *)
(***************************************************************************)

None == << "<None>" >>

Int0 == << "<int 0>" >>

\* `not v`
Falsy(v) == v \in {None, Int0, << >>}

\* d[k] = v on a dict, modelled as a function whose domain is its key set
SetItem(d, k, v) == [x \in DOMAIN d \cup {k} |-> IF x = k THEN v ELSE d[x]]

(***************************************************************************)
(* utils.github_pagination                                                 *)
(***************************************************************************)

Relations == {"first", "prev", "next", "last"}

PageKey(rel) == << rel, "page" >>

URLKey(rel) == << rel, "URL" >>

StaleRetval == pagelinks

\* the dictionary a call starts from, built anew by every call
FreshRetval ==
    [k \in {PageKey(r) : r \in Relations} \cup {URLKey(r) : r \in Relations} |->
        IF k[2] = "page" THEN Int0 ELSE None]

\* one pass of the loop over the header's links
ParseLink(retval, link) ==
    LET linktype == Inner(Strip(Last(Split(Last(Split(link, << ";" >>)), << "=" >>))))
        url      == Inner(Strip(Split(link, << ";" >>)[1]))
        pageno   == Strip(Last(Split(Last(Split(url, << "?" >>)), << "=" >>)))
    IN  SetItem(SetItem(retval, linktype \o << "page" >>, pageno),
                linktype \o << "URL" >>, url)

RECURSIVE ParseLinks(_, _)
ParseLinks(retval, links) ==
    IF links = << >> THEN retval
    ELSE ParseLinks(ParseLink(retval, Head(links)), Tail(links))

\* link_header is [str |-> s] for a header string and a response record,
\* with its headers, otherwise
github_pagination(link_header) ==
    IF "str" \in DOMAIN link_header
    THEN ParseLinks(FreshRetval, Split(link_header.str, << "," >>))
    ELSE IF "Link" \notin DOMAIN link_header.headers
         THEN FreshRetval
         ELSE ParseLinks(FreshRetval, Split(link_header.headers["Link"], << "," >>))

(***************************************************************************)
(* The GitHub server, as the client sees it: Link headers in the format    *)
(* the parser's comment gives, <url>; rel="type", joined by ", ".          *)
(***************************************************************************)

ApiHost == << "https://api.github.com" >>

\* page numbers as the server writes them
PageStr(n) == ToString(n)

\* where the page parameter stands among a URL's query parameters
URLShapes == {"only", "last", "first"}

PageURL(shape, n) ==
    ApiHost \o << "/", "x", "?" >> \o
    CASE shape = "only"  -> << "page", "=", PageStr(n) >>
      [] shape = "last"  -> << "per_page", "=", "100", "&", "page", "=", PageStr(n) >>
      [] shape = "first" -> << "page", "=", PageStr(n), "&", "per_page", "=", "100" >>

FormatLink(url, rel) ==
    << "<" >> \o url \o << ">", ";", " ", "rel", "=", "\"", rel, "\"" >>

\* rels: the relations advertised, in order; page: the page each leads to
FormatLinkHeader(rels, page, shape) ==
    Join(<< ",", " " >>,
         [i \in 1..Len(rels) |-> FormatLink(PageURL(shape, page[rels[i]]), rels[i])])


(***************************************************************************)
(* utils.github_rest_api                                                   *)
(***************************************************************************)

NoEndpointError == "ERROR: github_api() called with no endpoint"

\* int(s) of a numeral the server wrote
IntOf(s) == CHOOSE n \in 0..5000 : ToString(n) = s

\* the try block, lines 222-223: the two assignments in order, the first
\* header that is missing raising KeyError
TryRateLimit(st, headers) ==
    IF "X-RateLimit-Limit" \notin DOMAIN headers
    THEN [state |-> st, raised |-> TRUE]
    ELSE LET first == [st EXCEPT !.last_ratelimit =
                                     IntOf(headers["X-RateLimit-Limit"])]
         IN  IF "X-RateLimit-Remaining" \notin DOMAIN headers
             THEN [state |-> first, raised |-> TRUE]
             ELSE [state |-> [first EXCEPT !.last_remaining =
                                     IntOf(headers["X-RateLimit-Remaining"])],
                   raised |-> FALSE]

Sentinels_RemainingOnly(st) == [st EXCEPT !.last_remaining = 999999]

\* the except block, lines 230-231
Sentinels(st) == [st EXCEPT !.last_ratelimit = 999999, !.last_remaining = 999999]

\* the `if state:` block, lines 219-231
UpdateRateLimit(st, headers) ==
    IF ~st.present THEN st
    ELSE LET tried == TryRateLimit(st, headers)
         IN  IF tried.raised THEN Sentinels(tried.state) ELSE tried.state

\* session selection: the state object's session, created and saved on
\* first use (no session argument is passed by github_allpages' callers)
UseSession(st) ==
    IF st.present /\ st.requests_session = "none"
    THEN [st EXCEPT !.requests_session = "session"]
    ELSE st

FullEndpoint(ep) == IF Head(ep) = "/" THEN ApiHost \o ep ELSE ep

\* One call: what it returns, the state object after it, the GET it sent
\* (none or one) and what it printed.  resp is the server's answer to the
\* GET, should one be sent.
github_rest_api(ep, st, resp) ==
    IF Falsy(ep)
    THEN [response |-> None, state |-> st, sent |-> << >>,
          printed |-> {NoEndpointError}]
    ELSE [response |-> resp,
          state    |-> UpdateRateLimit(UseSession(st), resp.headers),
          sent     |-> << FullEndpoint(ep) >>,
          printed  |-> {}]

\* requests' Response.ok: no 4xx or 5xx status
Ok(response) == response.status_code < 400


(***************************************************************************)
(* The server's side of a paginated listing of npages pages.  Page k of it *)
(* advertises next -> k + 1 while k < npages, and no next on the last      *)
(* page; a failing response may carry the page's Link header or none.  A   *)
(* cyclic listing is what a faulty server hands out: its last page         *)
(* advertises the first page as next.                                      *)
(***************************************************************************)

MaxPages == 3

MaxItems == 2

Listings == [npages : 1..MaxPages, shape : URLShapes, cyclic : {FALSE}]

\* cycles of one page (a page naming itself as next) and of two pages
CyclicListings == [npages : {1, 2}, shape : {"only"}, cyclic : {TRUE}]

\* the page the server names as next on page k, 0 for none
NextOf(k, lst) == IF k < lst.npages THEN k + 1 ELSE IF lst.cyclic THEN 1 ELSE 0

\* the GETs of a call the model follows: on a cyclic listing, until the
\* collector has come back to the first page
MaxGets(lst) == lst.npages + 1

\* the page a URL asks for: the listing's first page unless it is one of
\* the page URLs the server handed out
PageOfURL(url) ==
    IF \E k \in 1..(MaxPages + 1), sh \in URLShapes : url = PageURL(sh, k)
    THEN CHOOSE k \in 1..(MaxPages + 1) : \E sh \in URLShapes : url = PageURL(sh, k)
    ELSE 1

\* the relations page k of the listing advertises, in GitHub's order
LinkRels(k, lst) ==
    IF NextOf(k, lst) # 0
    THEN IF k = 1 THEN << "next", "last" >> ELSE << "prev", "next", "last", "first" >>
    ELSE IF k > 1 THEN << "prev", "first" >> ELSE << >>

LinkPages(k, lst) ==
    [r \in Relations |->
        CASE r = "next" -> NextOf(k, lst) [] r = "prev" -> k - 1
          [] r = "last" -> lst.npages [] r = "first" -> 1]

LinkHeaders(k, lst) ==
    IF LinkRels(k, lst) = << >> THEN << >>
    ELSE [h \in {"Link"} |->
            FormatLinkHeader(LinkRels(k, lst), LinkPages(k, lst), lst.shape)]

RateHeaders ==
    [h \in {"X-RateLimit-Limit", "X-RateLimit-Remaining"} |->
        IF h = "X-RateLimit-Limit" THEN "60" ELSE "59"]

\* the body of page k holding m elements, as json.loads returns it
PageItems(k, m) == [i \in 1..m |-> [page |-> k, index |-> i]]

\* the body of a failing response: an error object, not a page of the
\* listing (index 0 marks what extending the payload with it would add)
ErrorBody == << [page |-> 0, index |-> 0] >>

\* The answers the server may give to a GET of url.  page and next say
\* which page this is and which page, if any, its Link header names as
\* next (0: none); the client reads neither field.
Responses(url, lst) ==
    LET k == PageOfURL(url)
        more == NextOf(k, lst)
    IN  { [status_code |-> 200, text |-> PageItems(k, m),
           headers |-> LinkHeaders(k, lst) @@ RateHeaders, page |-> k,
           next |-> more] : m \in 0..MaxItems }
        \cup
        { [status_code |-> 502, text |-> ErrorBody,
           headers |-> LinkHeaders(k, lst), page |-> k, next |-> more],
          [status_code |-> 404, text |-> ErrorBody,
           headers |-> << >>, page |-> k, next |-> 0] }

(***************************************************************************)
(* utils.github_allpages                                                   *)
(***************************************************************************)

Extend_Unconditional(data, response) == data \o response.text

\* `if response.ok: payload.extend(json.loads(response.text))`
Extend(data, response) == IF Ok(response) THEN data \o response.text ELSE data

NextPageEndpoint_Last(links) == links[URLKey("last")]

\* `page_endpoint = pagelinks["nextURL"]`
NextPageEndpoint(links) == links[URLKey("next")]

Break_Always(next_endpoint) == TRUE

\* `if not page_endpoint: break`
Break(next_endpoint) == Falsy(next_endpoint)

\* `(state and state.verbose) or response.status_code != 200`
StatusPrinted(st, response) ==
    IF (st.present /\ st.verbose) \/ response.status_code # 200
    THEN {"Status"} ELSE {}

EndpointArgs ==
    { None, << >>,
      << "/", "x", "?", "per_page", "=", "100" >>,
      ApiHost \o << "/", "x", "?", "per_page", "=", "100" >> }

\* The state argument: none (present = FALSE), a new state object, or one
\* that earlier calls have used.
NoState ==
    [present |-> FALSE, verbose |-> FALSE, requests_session |-> "none",
     last_ratelimit |-> 0, last_remaining |-> 0]

StateObjects ==
    { NoState }
    \cup
    { [present |-> TRUE, verbose |-> TRUE, requests_session |-> "none",
       last_ratelimit |-> 0, last_remaining |-> 0] }
    \cup
    { [present |-> TRUE, verbose |-> FALSE, requests_session |-> "session",
       last_ratelimit |-> 60, last_remaining |-> 41] }

\* the call begins: lines 80-83
Call(ep, lst) ==
    /\ pc = "idle"
    /\ endpoint' = ep
    /\ page_endpoint' = ep
    /\ payload' = << >>
    /\ listing' = lst
    /\ requests' = << >>
    /\ served' = << >>
    /\ state_at_call' = state
    /\ pc' = "loop"
    /\ UNCHANGED << state, console, callvars, linkvars, beyond_api >>

\* one pass of the `while True` loop: lines 86-108
Iterate ==
    /\ pc = "loop"
    /\ \/ \* github_rest_api returned None: response.status_code raises
          /\ Falsy(page_endpoint)
          /\ LET r == github_rest_api(page_endpoint, state, None)
             IN  /\ state' = r.state
                 /\ requests' = requests \o r.sent
                 /\ console' = console \cup r.printed
          /\ pc' = "fault"
          /\ UNCHANGED << payload, page_endpoint, pagelinks, served >>
       \/ /\ ~Falsy(page_endpoint)
          /\ Len(requests) < MaxGets(listing)
          /\ \E resp \in Responses(FullEndpoint(page_endpoint), listing) :
               LET r == github_rest_api(page_endpoint, state, resp)
                   links == github_pagination(r.response)
               IN  /\ state' = r.state
                   /\ requests' = requests \o r.sent
                   /\ served' = Append(served, r.response)
                   /\ console' = console \cup r.printed
                                    \cup StatusPrinted(state, r.response)
                   /\ payload' = Extend(payload, r.response)
                   /\ pagelinks' = links
                   /\ page_endpoint' = NextPageEndpoint(links)
                   /\ pc' = IF Break(NextPageEndpoint(links)) THEN "done" ELSE "loop"
    /\ UNCHANGED << endpoint, listing, state_at_call, ncalls, linkvars, beyond_api >>

\* `return payload`
Return ==
    /\ pc = "done"
    /\ pc' = "returned"
    /\ UNCHANGED << pagevars, callvars, linkvars, beyond_api >>

\* no report file has been opened
NoHandles == [matches |-> "none", repos |-> "none"]

\* no header parsed yet
NoLinks ==
    /\ link_string = << >>
    /\ linkspec = [rels |-> << >>, k |-> 1, npages |-> 1, shape |-> "only"]
    /\ pagelinks = << >>
    /\ ncalls = 0

\* no call of github_allpages under way
NoPages ==
    /\ state \in StateObjects
    /\ endpoint = None
    /\ page_endpoint = None
    /\ payload = << >>
    /\ state_at_call = state
    /\ listing = [npages |-> 1, shape |-> "only", cyclic |-> FALSE]
    /\ requests = << >>
    /\ served = << >>
    /\ console = {}

\* a file that does not exist
NoFile == [exists |-> FALSE, data |-> << >>]

\* repolist not called
NoCatalog ==
    /\ cachefile = NoFile
    /\ repodata = << >>
    /\ catalog = << >>
    /\ api_calls = 0
    /\ refresh_arg = TRUE
    /\ cache_at_call = NoFile

\* org_clone not called
NoClone ==
    /\ overwrite = FALSE
    /\ modes = << >>
    /\ batch_of = << >>
    /\ skiplist = {}
    /\ org_folder = FALSE
    /\ folders = << >>
    /\ logfile = NoFile
    /\ idx = 0
    /\ cloned = << >>
    /\ folders_after_first = << >>
    /\ skipfile = {}
    /\ github_repos = << >>

\* search_file not called
NoScan ==
    /\ words = << >>
    /\ file_content = << >>
    /\ hit_counts = << >>

\* search_repos not called
NoWalk ==
    /\ settings_folder = << >>
    /\ ossep = "/"
    /\ pending = << >>
    /\ ndirs = 0
    /\ nfiles = 0
    /\ repo_totals = << >>
    /\ matches_file = << >>
    /\ repos_file = << >>
    /\ visited = << >>
    /\ scanned = << >>
    /\ flushes = << >>
    /\ handles = NoHandles
    /\ local_path = << >>
    /\ github_url = << >>

InitPages ==
    /\ pc = "idle"
    /\ NoPages
    /\ NoLinks
    /\ NoCatalog
    /\ NoClone
    /\ NoScan
    /\ NoWalk

NextPages ==
    \/ \E ep \in EndpointArgs, lst \in Listings : Call(ep, lst)
    \/ Iterate
    \/ Return

vars == << pc, linkvars, callvars, pagevars, catvars, clonevars, scanvars,
          walkvars >>

SpecPages == InitPages /\ [][NextPages]_vars


(***************************************************************************)
(* Claims about github_allpages                                            *)
(***************************************************************************)

RECURSIVE Flatten(_)
Flatten(seqs) == IF seqs = << >> THEN << >> ELSE Head(seqs) \o Flatten(Tail(seqs))

RECURSIVE SumLen(_)
SumLen(seqs) == IF seqs = << >> THEN 0 ELSE Len(Head(seqs)) + SumLen(Tail(seqs))

Finished == pc \in {"done", "returned"}

AllServedOk == \A i \in 1..Len(served) : Ok(served[i])

\* the elements of the successful responses, in the order received
OkBodies == [i \in 1..Len(served) |-> IF Ok(served[i]) THEN served[i].text ELSE << >>]

\* C1: when every page of the listing is served successfully, page k
\* naming page k + 1 as next and the last page naming none, github_allpages
\* has fetched pages 1..npages in that order and returns the concatenation
\* of their elements, in page order and in each page's own order; the length
\* of the result is the sum of the pages' element counts.
C1_RoundTrip ==
    (Finished /\ AllServedOk) =>
        /\ Len(served) = listing.npages
        /\ \A i \in 1..Len(served) : served[i].page = i
        /\ payload = Flatten([i \in 1..Len(served) |-> served[i].text])
        /\ Len(payload) = SumLen([i \in 1..Len(served) |-> served[i].text])

C1_Witness ==
    /\ pc = "returned"
    /\ AllServedOk
    /\ Len(served) >= 3
    /\ Len(served[1].text) = 2
    /\ Len(served[2].text) = 0
    /\ Len(served[3].text) = 1
    /\ payload = << [page |-> 1, index |-> 1], [page |-> 1, index |-> 2],
                    [page |-> 3, index |-> 1] >>

\* C9: a failing response does not end the enumeration.  Every response
\* but the latest named a next page, and the GET that followed it asked for
\* that page; the loop has ended exactly when the latest response names no
\* next page; and the payload holds the elements of the successful
\* responses, in order, and nothing for a failing one.
C9_FailedPagesTolerated ==
    (pc \in {"loop", "done", "returned"}) =>
        /\ Len(requests) = Len(served)
        /\ payload = Flatten(OkBodies)
        /\ \A i \in 1..(Len(served) - 1) :
              /\ served[i].next # 0
              /\ requests[i + 1] = PageURL(listing.shape, served[i].next)
        /\ served # << >> => (Finished <=> served[Len(served)].next = 0)
        /\ served = << >> => pc = "loop"

C9_Witness ==
    /\ pc = "returned"
    /\ Len(served) = 3
    /\ Ok(served[1]) /\ ~Ok(served[2]) /\ Ok(served[3])
    /\ served[2].next = 3
    /\ payload = << [page |-> 1, index |-> 1], [page |-> 3, index |-> 1],
                    [page |-> 3, index |-> 2] >>

\* C10: a call without an endpoint sends no request, reports the error,
\* leaves the state object as it was, and github_allpages completes with an
\* empty result.
C10_MissingEndpointNotFatal ==
    (Falsy(endpoint) /\ pc \notin {"idle", "loop"}) =>
        /\ requests = << >>
        /\ NoEndpointError \in console
        /\ state = state_at_call
        /\ Finished
        /\ payload = << >>


(***************************************************************************)
(* github_pagination called on header strings: an earlier response's       *)
(* header is parsed, then the current one's.                               *)
(***************************************************************************)

\* the sub-sequences of a sequence of relations
RECURSIVE SubSeqs(_)
SubSeqs(rels) ==
    IF rels = << >> THEN {<< >>}
    ELSE LET rest == SubSeqs(Tail(rels))
         IN  rest \cup {<< Head(rels) >> \o t : t \in rest}

GitHubOrder == << "prev", "next", "last", "first" >>

\* A header of page k of a listing of npages pages: the relations it names
\* (any of the four, in GitHub's order or the reverse) and the URL shape.
LinkSpecs ==
    { [rels |-> r, k |-> k, npages |-> n, shape |-> sh] :
        r \in SubSeqs(GitHubOrder) \cup SubSeqs(<< "first", "last", "next", "prev" >>),
        k \in 1..MaxPages, n \in {MaxPages + 1, 5}, sh \in URLShapes }

EarlierLinkSpecs ==
    { [rels |-> r, k |-> MaxPages, npages |-> MaxPages + 1, shape |-> "only"] :
        r \in SubSeqs(GitHubOrder) }

HeaderOf(spec) ==
    FormatLinkHeader(spec.rels, LinkPages(spec.k, spec), spec.shape)

\* the argument of the call: the header string, or the response itself
\* when it carries no Link header (it names no relation)
LinkArgument(spec) ==
    IF spec.rels = << >> THEN [headers |-> << >>] ELSE [str |-> HeaderOf(spec)]

\* one call of github_pagination
ParseHeader(spec) ==
    /\ pc = "links"
    /\ ncalls < 2
    /\ spec \in IF ncalls = 0 THEN EarlierLinkSpecs ELSE LinkSpecs
    /\ ncalls' = ncalls + 1
    /\ linkspec' = spec
    /\ link_string' = HeaderOf(spec)
    /\ pagelinks' = github_pagination(LinkArgument(spec))
    /\ UNCHANGED << pc, pagevars, beyond_api >>

InitLinks ==
    /\ pc = "links"
    /\ NoLinks
    /\ NoPages
    /\ state = NoState
    /\ NoCatalog
    /\ NoClone
    /\ NoScan
    /\ NoWalk

NextLinks == \E spec \in LinkSpecs \cup EarlierLinkSpecs : ParseHeader(spec)

SpecLinks == InitLinks /\ [][NextLinks]_vars

\* the relations the current header names
Named == {linkspec.rels[i] : i \in 1..Len(linkspec.rels)}

Defaults == {k \in DOMAIN pagelinks : pagelinks[k] \in {None, Int0}}

\* C6: after a call on a header naming N distinct relations among first,
\* prev, next and last, the result has the eight keys; each named relation's
\* URL key holds that link's URL and its page key a value read from it (the
\* page number when page is the URL's only or last parameter); the other
\* 8 - 2N keys hold the defaults None and 0, whatever an earlier call parsed.
C6_ParserDefaults ==
    ncalls >= 1 =>
        LET page == LinkPages(linkspec.k, linkspec)
        IN  /\ DOMAIN pagelinks =
                 {PageKey(r) : r \in Relations} \cup {URLKey(r) : r \in Relations}
            /\ \A r \in Named :
                 /\ pagelinks[URLKey(r)] = PageURL(linkspec.shape, page[r])
                 /\ pagelinks[PageKey(r)] # Int0
                 /\ linkspec.shape # "first" =>
                        pagelinks[PageKey(r)] = << PageStr(page[r]) >>
            /\ \A r \in Relations \ Named :
                 pagelinks[URLKey(r)] = None /\ pagelinks[PageKey(r)] = Int0
            /\ Cardinality(Defaults) = 8 - 2 * Cardinality(Named)

\* the spec's example, parsed after a header that named all four relations
C6_Witness ==
    /\ ncalls = 2
    /\ linkspec.rels = << "next", "last" >>
    /\ pagelinks[URLKey("next")] = ApiHost \o << "/", "x", "?", "page", "=", "2" >>
    /\ pagelinks[PageKey("next")] = << "2" >>
    /\ pagelinks[URLKey("last")] = ApiHost \o << "/", "x", "?", "page", "=", "5" >>
    /\ pagelinks[PageKey("last")] = << "5" >>
    /\ pagelinks[URLKey("first")] = None
    /\ pagelinks[PageKey("prev")] = Int0


(***************************************************************************)
(* clone_orgs.repolist                                                     *)
(***************************************************************************)

MaxRepos == 3

\* raw repository records as the API lists them
RepoRecords ==
    [name : {<< "a" >>, << "B" >>}, size : {1, 2},
     private : BOOLEAN, fork : BOOLEAN] \ {r \in [name : {<< "a" >>, << "B" >>},
        size : {1, 2}, private : BOOLEAN, fork : BOOLEAN] : r.private /\ r.fork}

\* the sequences over S of length at most n
RECURSIVE SeqsUpTo(_, _)
SeqsUpTo(S, n) ==
    IF n = 0 THEN {<< >>}
    ELSE LET shorter == SeqsUpTo(S, n - 1)
         IN  shorter \cup {Append(q, x) : q \in shorter, x \in S}

RawListings == SeqsUpTo(RepoRecords, MaxRepos)

\* the listings a cache file of an earlier run may hold
CachedListings ==
    { << [name |-> << "B" >>, size |-> 2, private |-> FALSE, fork |-> FALSE],
         [name |-> << "a" >>, size |-> 1, private |-> FALSE, fork |-> f] >>
        : f \in BOOLEAN }

\* (name, size) < (name, size) in Python's order on tuples
TupleLess(x, y) == StrLess(x[1], y[1]) \/ (x[1] = y[1] /\ x[2] < y[2])

\* sorted(): each element put before the first one greater than it
RECURSIVE Insert(_, _)
Insert(x, sorted) ==
    IF sorted = << >> THEN << x >>
    ELSE IF TupleLess(x, Head(sorted)) THEN << x >> \o sorted
    ELSE << Head(sorted) >> \o Insert(x, Tail(sorted))

RECURSIVE SortedFrom(_, _)
SortedFrom(todo, sorted) ==
    IF todo = << >> THEN sorted
    ELSE SortedFrom(Tail(todo), Insert(Head(todo), sorted))

Sorted(list) == SortedFrom(list, << >>)

Kept_ForksToo(repo) == ~repo.private

\* `if not repo["private"] and not repo["fork"]`
Kept(repo) == ~repo.private /\ ~repo.fork

\* `(repo["name"].lower(), repo["size"])`
Entry(repo) == << Lower(repo.name), repo.size >>

RECURSIVE Comprehension(_)
Comprehension(data) ==
    IF data = << >> THEN << >>
    ELSE (IF Kept(Head(data)) THEN << Entry(Head(data)) >> ELSE << >>)
         \o Comprehension(Tail(data))

\* the return statement: lines 137-143
Transform(data) == Sorted(Comprehension(data))

\* utils.dicts2json: nothing is written for an empty source
dicts2json(source, file) ==
    IF source = << >> THEN file ELSE [exists |-> TRUE, data |-> source]

\* repolist(orgname, refresh); fetched is what github_allpages returns when
\* it is called
\* cache is the cache file as the call finds it
repolist_from(refresh, fetched, cache) ==
    /\ refresh_arg' = refresh
    /\ cache_at_call' = cache
    /\ IF ~refresh /\ cache.exists
       THEN /\ repodata' = cache.data
            /\ cachefile' = cache
            /\ UNCHANGED api_calls
       ELSE /\ repodata' = fetched
            /\ api_calls' = api_calls + 1
            /\ cachefile' = dicts2json(fetched, cache)
    /\ catalog' = Transform(repodata')

repolist(refresh, fetched) ==
    /\ pc = "catalog"
    /\ repolist_from(refresh, fetched, cachefile)
    /\ pc' = "returned"
    /\ UNCHANGED << linkvars, callvars, pagevars, clonevars, scanvars, walkvars >>

InitCatalog ==
    /\ pc = "catalog"
    /\ cachefile \in {NoFile} \cup {[exists |-> TRUE, data |-> l] : l \in CachedListings}
    /\ repodata = << >>
    /\ catalog = << >>
    /\ api_calls = 0
    /\ refresh_arg = TRUE
    /\ cache_at_call = cachefile
    /\ NoPages
    /\ state = NoState
    /\ NoLinks
    /\ NoClone
    /\ NoScan
    /\ NoWalk

\* a call of repolist, with any refresh flag and any listing on the server
RepolistCall ==
    /\ pc = "catalog"
    /\ \E refresh \in BOOLEAN, fetched \in RawListings : repolist(refresh, fetched)

NextCatalog == RepolistCall

SpecCatalog == InitCatalog /\ [][NextCatalog]_vars

\* how many times x occurs in a sequence
Occurrences(list, x) == Cardinality({i \in 1..Len(list) : list[i] = x})

IsLower(name) == Lower(name) = name

\* C2: the list repolist returns holds no entry of a private or forked
\* record and one (name.lower(), size) entry for every public record that is
\* no fork; its names are lower-case and it is in ascending (name, size)
\* order.
C2_CatalogFiltered ==
    pc = "returned" =>
        /\ \A e \in {catalog[i] : i \in 1..Len(catalog)} \cup
                    {<< Lower(r.name), r.size >> : r \in RepoRecords} :
              Occurrences(catalog, e) =
                Cardinality({i \in 1..Len(repodata) :
                    /\ ~repodata[i].private /\ ~repodata[i].fork
                    /\ Lower(repodata[i].name) = e[1]
                    /\ repodata[i].size = e[2]})
        /\ \A i \in 1..Len(catalog) : IsLower(catalog[i][1])
        /\ \A i \in 1..(Len(catalog) - 1) :
              \/ StrLess(catalog[i][1], catalog[i + 1][1])
              \/ /\ catalog[i][1] = catalog[i + 1][1]
                 /\ catalog[i][2] <= catalog[i + 1][2]

\* a fetched listing, out of order, with a fork dropped and a capital folded
C2_Witness ==
    /\ pc = "returned"
    /\ api_calls = 1
    /\ repodata = << [name |-> << "B" >>, size |-> 2, private |-> FALSE, fork |-> FALSE],
                     [name |-> << "a" >>, size |-> 2, private |-> FALSE, fork |-> TRUE],
                     [name |-> << "a" >>, size |-> 1, private |-> FALSE, fork |-> FALSE] >>
    /\ catalog = << << << "a" >>, 1 >>, << << "b" >>, 2 >> >>

(***************************************************************************)
(* clone_orgs.org_clone.  A run is one call of org_clone for the           *)
(* organization; the script may be run again after a run has ended or has  *)
(* been halted by a failed clone.  The folder of a repository is "absent", *)
(* an "empty" directory, a "nonempty" directory or a regular "file".       *)
(*                                                                         *)
(* A batch is one execution of the script, which calls org_clone for each  *)
(* entry of SETTINGS["organizations"] in turn.  The entries of a batch are *)
(* modelled by the one organization whose folders the model tracks: what   *)
(* differs between organizations plays no part in how a batch goes on or   *)
(* ends.                                                                   *)
(***************************************************************************)
MaxRuns == 2

Org == << "O" >>

RepoNames == {Lower(r.name) : r \in RepoRecords}

FolderStates == {"absent", "empty", "nonempty", "file"}

\* GitHub lists no two repositories of an organization under one name
OrgListings ==
    {l \in SeqsUpTo({r \in RepoRecords : r.size = 1}, Cardinality(RepoNames)) :
        \A i, j \in DOMAIN l : i # j => Lower(l[i].name) # Lower(l[j].name)}

SkipFiles == SUBSET {<< "O", "/", "B" >>, << "o", "/", "a" >>}

non_empty_folder_Inverted(folder) ==
    IF folder = "absent" THEN FALSE
    ELSE IF folder = "file" THEN FALSE
    ELSE IF folder = "nonempty" THEN FALSE
    ELSE TRUE

non_empty_folder(folder) ==
    IF folder = "absent" THEN FALSE
    ELSE IF folder = "file" THEN FALSE
    ELSE IF folder = "empty" THEN FALSE
    ELSE TRUE

\* utils.folder_del on the organization's folder
folder_del(tree) == [r \in DOMAIN tree |-> "absent"]

SkipKey_AsWritten(repo) == Org \o << "/" >> \o repo

\* `f"{org}/{repo}".lower()`
SkipKey(repo) == Lower(Org \o << "/" >> \o repo)

LogHeader == [run |-> 0, org |-> << "org" >>, repo |-> << "repo" >>, estimate |-> 0]

OpenLog_Truncating(file) == [exists |-> TRUE, data |-> << LogHeader >>]

\* lines 44-48: the log file is created, with its header, if it is not there
OpenLog(file) ==
    IF file.exists THEN file ELSE [exists |-> TRUE, data |-> << LogHeader >>]

\* what Repo.clone_from can do with a target: git clones into a missing or
\* an empty directory only, and a clone that fails part-way may leave
\* anything behind
CloneOutcomes(folder) ==
    IF folder \in {"absent", "empty"}
    THEN {[ok |-> TRUE, leaves |-> "nonempty"]}
         \cup {[ok |-> FALSE, leaves |-> f] : f \in {folder, "empty", "nonempty"}}
    ELSE {[ok |-> FALSE, leaves |-> folder]}

OnFailure_Continue(position) == [pc |-> "loop", idx |-> position + 1]

\* Repo.clone_from raises: nothing in org_clone or around it catches
OnFailure(position) == [pc |-> "halted", idx |-> position]

\* lines 36-63: the skip list, the log file, the organization's folder and
\* the call of repolist that the loop iterates over
\* fresh: the script is started; otherwise the loop at lines 150-151 goes
\* on to its next entry, which it does when org_clone has returned
StartRun(ow, fresh) ==
    /\ IF fresh THEN pc \in {"clone", "ended", "halted"}
                ELSE pc = "ended" /\ ow = overwrite
    /\ Len(modes) < MaxRuns
    /\ overwrite' = ow
    /\ modes' = Append(modes, ow)
    /\ batch_of' = Append(batch_of,
                          IF batch_of = << >> THEN 1
                          ELSE IF fresh THEN Last(batch_of) + 1 ELSE Last(batch_of))
    /\ folders_after_first' = IF Len(modes) = 1 THEN folders ELSE folders_after_first
    /\ skiplist' = {Lower(line) : line \in skipfile}
    /\ logfile' = OpenLog(logfile)
    /\ folders' = IF ow /\ org_folder THEN folder_del(folders) ELSE folders
    /\ org_folder' = TRUE
    /\ repolist_from(TRUE, github_repos,
                     IF ow /\ org_folder THEN NoFile ELSE cachefile)
    /\ idx' = 1
    /\ pc' = "loop"
    /\ UNCHANGED << cloned, skipfile, github_repos, linkvars, callvars, pagevars,
                    scanvars, walkvars >>

\* lines 63-105: one iteration of the loop
CloneStep ==
    /\ pc = "loop"
    /\ idx <= Len(catalog)
    /\ LET repo == catalog[idx][1]
           size_api == catalog[idx][2]
           run == Len(modes)
       IN  IF SkipKey(repo) \in skiplist
           THEN /\ idx' = idx + 1
                /\ UNCHANGED << pc, folders, cloned, logfile >>
           ELSE IF ~overwrite /\ non_empty_folder(folders[repo])
           THEN /\ idx' = idx + 1
                /\ UNCHANGED << pc, folders, cloned, logfile >>
           ELSE \E outcome \in CloneOutcomes(folders[repo]) :
                /\ cloned' = Append(cloned, [run |-> run, repo |-> repo,
                                             ok |-> outcome.ok])
                /\ folders' = [folders EXCEPT ![repo] = outcome.leaves]
                /\ IF outcome.ok
                   THEN /\ logfile' = [logfile EXCEPT !.data =
                               Append(@, [run |-> run, org |-> Org, repo |-> repo,
                                          estimate |-> size_api])]
                        /\ idx' = idx + 1
                        /\ pc' = pc
                   ELSE /\ pc' = OnFailure(idx).pc
                        /\ idx' = OnFailure(idx).idx
                        /\ UNCHANGED logfile
    /\ UNCHANGED << overwrite, modes, batch_of, skiplist, org_folder, folders_after_first,
                    skipfile, github_repos, catvars, linkvars, callvars, pagevars,
                    scanvars, walkvars >>

\* lines 107-111: the loop is over, the totals go to the console
EndRun ==
    /\ pc = "loop"
    /\ idx > Len(catalog)
    /\ pc' = "ended"
    /\ UNCHANGED << clonevars, catvars, linkvars, callvars, pagevars, scanvars,
                    walkvars >>

InitClone ==
    /\ pc = "clone"
    /\ overwrite = FALSE
    /\ modes = << >>
    /\ batch_of = << >>
    /\ skiplist = {}
    /\ skipfile \in SkipFiles
    /\ github_repos \in OrgListings
    /\ folders \in [RepoNames -> FolderStates]
    /\ org_folder \in BOOLEAN
    /\ (\E r \in RepoNames : folders[r] # "absent") => org_folder
    /\ logfile = NoFile
    /\ idx = 0
    /\ cloned = << >>
    /\ folders_after_first = << >>
    /\ NoCatalog
    /\ NoPages
    /\ state = NoState
    /\ NoLinks
    /\ NoScan
    /\ NoWalk

NextClone ==
    \/ \E ow, fresh \in BOOLEAN : StartRun(ow, fresh)
    \/ CloneStep
    \/ EndRun

SpecClone == InitClone /\ [][NextClone]_vars

\* C3: when org_clone runs twice without overwrite, the second run does not
\* call the clone operation for, and appends no log row about, a repository
\* whose folder was a non-empty directory when the first run was over.
C3_SecondRunSkipsCloned ==
    (Len(modes) >= 2 /\ ~modes[1] /\ ~modes[2]) =>
        \A r \in RepoNames :
            folders_after_first[r] = "nonempty" =>
                /\ \A i \in DOMAIN cloned :
                       ~(cloned[i].run = 2 /\ cloned[i].repo = r)
                /\ \A i \in DOMAIN logfile.data :
                       ~(logfile.data[i].run = 2 /\ logfile.data[i].repo = r)

\* two runs without overwrite are over; the first cloned a repository, the
\* second found its folder and cloned another one
C3_Witness ==
    /\ pc = "ended"
    /\ Len(modes) = 2 /\ ~modes[1] /\ ~modes[2]
    /\ \E r, q \in RepoNames :
          /\ r # q
          /\ folders_after_first[r] = "nonempty"
          /\ \E i \in DOMAIN cloned :
                cloned[i] = [run |-> 1, repo |-> r, ok |-> TRUE]
          /\ \E i \in DOMAIN cloned :
                cloned[i] = [run |-> 2, repo |-> q, ok |-> TRUE]
          /\ \A i \in DOMAIN cloned : cloned[i].run = 2 => cloned[i].repo # r
(***************************************************************************)
(* search.search_file                                                      *)
(***************************************************************************)
MaxContent == 3

MaxWords == 2

FilenameKey == << "f", "i", "l", "e", "n", "a", "m", "e" >>

TotalKey == << "*", "T", "O", "T", "A", "L", "*" >>

FooFooFoo == << "F", "o", "o", "F", "o", "o", "F", "o", "o" >>

\* what a file may hold
Contents ==
    SeqsUpTo({"F", "o", "O"}, MaxContent)
        \cup {FooFooFoo, << "*", "t", "o", "t", "a", "l", "*" >>,
              << "A", " ", "f", "o", "o", "d" >>}

\* what config.json may list
Keywords ==
    {<< "f", "o", "o" >>, << "F", "o", "o" >>, << "o", "o" >>, << "o" >>,
     << >>, TotalKey, FilenameKey}

WordLists == SeqsUpTo(Keywords, MaxWords)

\* one pass of the loop at lines 47-50 for each word still to do
RECURSIVE CountWords(_, _, _)
CountWords(todo, content, counts) ==
    IF todo = << >> THEN counts
    ELSE LET searchfor == Head(todo)
             matches == Count(content, Lower(searchfor))
             with_word == SetItem(counts, searchfor, matches)
         IN  CountWords(Tail(todo), content,
                        SetItem(with_word, TotalKey, with_word[TotalKey] + matches))

\* search_file(filename), the file holding content
search_file(filename, content) ==
    CountWords(words, Lower(content),
               SetItem(SetItem(<< >>, FilenameKey, filename), TotalKey, 0))

ScanFile ==
    /\ pc = "scan"
    /\ hit_counts' = search_file(<< "a", ".", "g", "o" >>, file_content)
    /\ pc' = "scanned"
    /\ UNCHANGED << words, file_content, linkvars, callvars, pagevars, catvars,
                    clonevars, walkvars >>

InitScan ==
    /\ pc = "scan"
    /\ words \in WordLists
    /\ file_content \in Contents
    /\ hit_counts = << >>
    /\ NoPages
    /\ state = NoState
    /\ NoLinks
    /\ NoCatalog
    /\ NoClone
    /\ NoWalk

NextScan == ScanFile

SpecScan == InitScan /\ [][NextScan]_vars

\* where sub occurs in s, compared without regard to case
MatchPositions(s, sub) ==
    {i \in 1..(Len(s) - Len(sub) + 1) :
        Lower(SubSeq(s, i, i + Len(sub) - 1)) = Lower(sub)}

Apart(P, n) == \A i, j \in P : i < j => j - i >= n

\* the most occurrences of sub in s that can be taken without overlap
NonOverlapping(s, sub) ==
    LET sizes == {Cardinality(P) : P \in {Q \in SUBSET MatchPositions(s, sub) :
                                             Apart(Q, Len(sub))}}
    IN  CHOOSE n \in sizes : \A m \in sizes : m <= n

RECURSIVE SumOver(_, _)
SumOver(f, keys) ==
    IF keys = {} THEN 0
    ELSE LET k == CHOOSE x \in keys : TRUE
         IN  f[k] + SumOver(f, keys \ {k})

KeywordSet == {words[i] : i \in DOMAIN words}

\* C7: the dictionary search_file returns gives, for each configured
\* keyword, the number of non-overlapping occurrences of the keyword in the
\* content, case ignored, and a total that is the sum of the per-keyword
\* counts in the dictionary; nothing is counted in an empty content.
C7_ScannerCounts ==
    pc = "scanned" =>
        /\ \A w \in KeywordSet : hit_counts[w] = NonOverlapping(file_content, w)
        /\ hit_counts[TotalKey] = SumOver(hit_counts, KeywordSet)
        /\ file_content = << >> =>
              /\ \A w \in KeywordSet : hit_counts[w] = 0
              /\ hit_counts[TotalKey] = 0
(***************************************************************************)
(* search.search_repos.  A path is a sequence of names and separators; the *)
(* tree under the cache root is whatever os.walk finds, one directory at a *)
(* time.  A file name is a stem followed, if it has one, by its extension. *)
(***************************************************************************)
MaxDirs == 4

MaxFiles == 2

FolderKey == << "f", "o", "l", "d", "e", "r" >>

\* SETTINGS["filetypes"]
FileTypes == {<< ".go" >>}

\* the cache root and the separator of the platform it is on
Platforms ==
    {[folder |-> << "/", "cache" >>, sep |-> "/"],
     [folder |-> << "c:", "\\", "cache" >>, sep |-> "\\"]}

\* the names a directory at the given depth below the cache root may have
DirNames(depth) ==
    CASE depth = 1 -> {"orgA", "orgB"}
      [] depth = 2 -> {"repo1", "cache"}
      [] depth = 3 -> {"cache", "vendor", ".git"}
      [] OTHER -> {"src"}

Files ==
    {[name |-> << "a", ".go" >>, content |-> << "F", "o", "o" >>],
     [name |-> << "b", ".GO" >>, content |-> << >>],
     [name |-> << "n", ".txt" >>, content |-> << "F", "o", "o" >>]}

\* what a directory may hold: up to two files and up to two directories,
\* no name twice
FileLists(n) ==
    {l \in SeqsUpTo(Files, IF n > 2 THEN 2 ELSE n) :
        \A i, j \in DOMAIN l : i # j => l[i].name # l[j].name}

DirLists(depth, n) ==
    {l \in SeqsUpTo(DirNames(depth), IF n > 2 THEN 2 ELSE n) :
        \A i, j \in DOMAIN l : i # j => l[i] # l[j]}

\* os.path.join(root, name)
PathJoin(root, name) == root \o << ossep >> \o name

\* os.path.splitext(filename)[1]
Extension(filename) == IF Len(filename) > 1 THEN << Last(filename) >> ELSE << >>

RECURSIVE empty_repo_totals_from(_, _)
empty_repo_totals_from(todo, temp) ==
    IF todo = << >> THEN temp
    ELSE empty_repo_totals_from(Tail(todo), SetItem(temp, Head(todo), 0))

empty_repo_totals ==
    empty_repo_totals_from(words, SetItem(SetItem(<< >>, FolderKey, << >>), TotalKey, 0))

\* the count of "/" that line 35 compares with 2
SubPathSeparators(folder_path) ==
    Count(Replace(Replace(folder_path, settings_folder, << >>), << "\\" >>, << "/" >>),
          << "/" >>)

repo_folder(folder_path) == SubPathSeparators(folder_path) = 2

\* the characters of a name of the model's trees
CharsOf(name) ==
    CASE name = "cache" -> << "c", "a", "c", "h", "e" >>
      [] name = "cache1" -> << "c", "a", "c", "h", "e", "1" >>
      [] name = "srv" -> << "s", "r", "v" >>
      [] name = "gh" -> << "g", "h" >>
      [] name = "c:" -> << "c", ":" >>
      [] name = "orgA" -> << "o", "r", "g", "A" >>
      [] name = "orgB" -> << "o", "r", "g", "B" >>
      [] name = "repo1" -> << "r", "e", "p", "o", "1" >>
      [] name = "vendor" -> << "v", "e", "n", "d", "o", "r" >>
      [] name = ".git" -> << ".", "g", "i", "t" >>
      [] name = "src" -> << "s", "r", "c" >>
      [] name = ".go" -> << ".", "g", "o" >>
      [] name = ".GO" -> << ".", "G", "O" >>
      [] name = ".txt" -> << ".", "t", "x", "t" >>
      [] OTHER -> << name >>

\* a path of the model written out character by character
RECURSIVE Spell(_)
Spell(path) == IF path = << >> THEN << >> ELSE CharsOf(Head(path)) \o Spell(Tail(path))

PrefixLength == 15

BlobLength == 13

GitHubCom == << "https://github.com/" >>

BlobMaster == << "/", "b", "l", "o", "b", "/", "m", "a", "s", "t", "e", "r", "/" >>

\* utils.file_url(filename), filename character by character
file_url(filename) ==
    LET gh_path == DropFirst(Replace(filename, << "\\" >>, << "/" >>), PrefixLength)
        parts == Split(gh_path, << "/" >>)
        long == GitHubCom \o Join(<< "/" >>, TakeFirst(parts, 2)) \o BlobMaster
                    \o Join(<< "/" >>, DropFirst(parts, 2))
    IN  IF EndsWith(long, BlobMaster)
        THEN SubSeq(long, 1, Len(long) - BlobLength)
        ELSE long

\* the columns written for each word of SETTINGS["words"]
Columns(data) == [i \in DOMAIN words |-> data[words[i]]]

\* write_matches; the row keeps the name file_url is given next to the URL
write_matches(file, data) ==
    [file EXCEPT !.rows = Append(@, [filename |-> data[FilenameKey],
                                     url |-> file_url(Spell(data[FilenameKey])),
                                     counts |-> Columns(data),
                                     total |-> data[TotalKey]])]

NoMatches_Never(data) == FALSE

\* line 121
NoMatches(data) == data[TotalKey] = 0

\* write_repo; the row keeps the folder file_url is given next to the URL
write_repo(file, data) ==
    IF NoMatches(data) THEN file
    ELSE [file EXCEPT !.rows = Append(@, [folder |-> data[FolderKey],
                                          url |-> file_url(Spell(data[FolderKey])),
                                          counts |-> Columns(data),
                                          total |-> data[TotalKey]])]

\* lines 93-95
RECURSIVE AddWords(_, _, _)
AddWords(todo, totals, hits) ==
    IF todo = << >> THEN totals
    ELSE AddWords(Tail(todo),
                  SetItem(totals, Head(todo), totals[Head(todo)] + hits[Head(todo)]),
                  hits)

AddHits(totals, hits) ==
    LET added == AddWords(words, totals, hits)
    IN  SetItem(added, TotalKey, added[TotalKey] + hits[TotalKey])

\* lines 84-95 for the files still to do; acc is [totals, matches, scans]
RECURSIVE ScanFiles(_, _, _, _)
ScanFiles(root, files, at, acc) ==
    IF files = << >> THEN acc
    ELSE LET file == Head(files)
         IN  IF Lower(Extension(file.name)) \in FileTypes
             THEN LET fullname == PathJoin(root, file.name)
                      hits == search_file(fullname, file.content)
                      scan == [filename |-> fullname, content |-> file.content,
                               hits |-> hits, at |-> at]
                  IN  ScanFiles(root, Tail(files), at,
                        IF hits[TotalKey] > 0
                        THEN [totals |-> AddHits(acc.totals, hits),
                              matches |-> write_matches(acc.matches, hits),
                              scans |-> Append(acc.scans, scan)]
                        ELSE [acc EXCEPT !.scans = Append(@, scan)])
             ELSE ScanFiles(root, Tail(files), at, acc)

\* dirs after lines 98-101
RECURSIVE Without(_, _)
Without(dirs, name) ==
    IF dirs = << >> THEN << >>
    ELSE IF Head(dirs) = name THEN Tail(dirs)
    ELSE << Head(dirs) >> \o Without(Tail(dirs), name)

Pruned(dirs) == Without(Without(dirs, ".git"), ".github")

\* the directories os.walk goes into next
Children(root, depth, dirs) ==
    [i \in DOMAIN dirs |-> [path |-> PathJoin(root, << dirs[i] >>), depth |-> depth + 1]]

HasFolder_Never(totals) == FALSE

\* `if repo_totals["folder"]:`
HasFolder(totals) == ~Falsy(totals[FolderKey])

\* lines 66-72
OpenReports ==
    /\ pc = "search"
    /\ matches_file' = [header |-> words, rows |-> << >>]
    /\ repos_file' = [header |-> words, rows |-> << >>]
    /\ repo_totals' = empty_repo_totals
    /\ pending' = << [path |-> settings_folder, depth |-> 0] >>
    /\ ndirs' = 1
    /\ handles' = [matches |-> "open", repos |-> "open"]
    /\ pc' = "walk"
    /\ UNCHANGED << settings_folder, ossep, nfiles, visited, scanned, flushes,
                    scanvars, local_path, github_url,
                    linkvars, callvars, pagevars, catvars, clonevars >>

\* lines 74-101: os.walk yields root with the files and dirs it holds, and
\* the body of the loop runs
Visit(files, dirs) ==
    /\ pc = "walk"
    /\ pending # << >>
    /\ LET root == Head(pending).path
           depth == Head(pending).depth
           at == Len(visited) + 1
       IN  /\ visited' = Append(visited, [root |-> root, depth |-> depth])
           /\ IF Contains(root, << "\\", "vendor", "\\" >>)
              THEN /\ pending' = Children(root, depth, dirs) \o Tail(pending)
                   /\ UNCHANGED << repo_totals, matches_file, repos_file, scanned,
                                   flushes >>
              ELSE LET opens == repo_folder(root)
                       fresh == SetItem(empty_repo_totals, FolderKey, root)
                       acc == ScanFiles(root, files, at,
                                 [totals |-> IF opens THEN fresh ELSE repo_totals,
                                  matches |-> matches_file,
                                  scans |-> scanned])
                       flush == opens /\ HasFolder(repo_totals)
                   IN  /\ repos_file' =
                             IF flush THEN write_repo(repos_file, repo_totals)
                             ELSE repos_file
                       /\ flushes' =
                             IF flush
                             THEN Append(flushes, [data |-> repo_totals, at |-> at,
                                                   last |-> FALSE])
                             ELSE flushes
                       /\ repo_totals' = acc.totals
                       /\ matches_file' = acc.matches
                       /\ scanned' = acc.scans
                       /\ pending' = Children(root, depth, Pruned(dirs)) \o Tail(pending)
    /\ ndirs' = ndirs + Len(dirs)
    /\ nfiles' = nfiles + Len(files)
    /\ UNCHANGED << pc, settings_folder, ossep, scanvars, linkvars, callvars,
                    pagevars, catvars, clonevars, local_path, github_url, handles >>

\* one step of the walk, over whatever the directory holds
Walk ==
    /\ pc = "walk"
    /\ pending # << >>
    /\ \E files \in FileLists(MaxFiles - nfiles),
          dirs \in DirLists(Head(pending).depth + 1, MaxDirs - ndirs) :
            Visit(files, dirs)

\* What the runtime has done with a file object that the code left without
\* calling close(): nothing yet, or its collector has closed it.
Abandoned == {"open", "closed"}

\* search_repos is left by an exception: neither close() of lines 105-106
\* is reached
Raise ==
    /\ pc' = "fault"
    /\ handles' \in [matches : Abandoned, repos : Abandoned]

\* lines 74-88 when open() in search_file fails on the first file to search
\* of the directory (a file that cannot be read, a broken link): the
\* exception is caught nowhere
ScanFault ==
    /\ pc = "walk"
    /\ pending # << >>
    /\ nfiles < MaxFiles
    /\ LET root == Head(pending).path
           depth == Head(pending).depth
           at == Len(visited) + 1
           opens == repo_folder(root)
           flush == opens /\ HasFolder(repo_totals)
       IN  /\ ~Contains(root, << "\\", "vendor", "\\" >>)
           /\ visited' = Append(visited, [root |-> root, depth |-> depth])
           /\ repos_file' =
                 IF flush THEN write_repo(repos_file, repo_totals) ELSE repos_file
           /\ flushes' =
                 IF flush
                 THEN Append(flushes, [data |-> repo_totals, at |-> at, last |-> FALSE])
                 ELSE flushes
           /\ repo_totals' =
                 IF opens THEN SetItem(empty_repo_totals, FolderKey, root)
                 ELSE repo_totals
    /\ nfiles' = nfiles + 1
    /\ Raise
    /\ UNCHANGED << settings_folder, ossep, pending, ndirs, matches_file, scanned,
                    scanvars, linkvars, callvars, pagevars, catvars, clonevars,
                    local_path, github_url >>

\* lines 103-106
Finish ==
    /\ pc = "walk"
    /\ pending = << >>
    /\ repos_file' = write_repo(repos_file, repo_totals)
    /\ flushes' = Append(flushes, [data |-> repo_totals, at |-> Len(visited) + 1,
                                   last |-> TRUE])
    /\ handles' = [matches |-> "closed", repos |-> "closed"]
    /\ pc' = "done"
    /\ UNCHANGED << settings_folder, ossep, pending, ndirs, nfiles, repo_totals,
                    matches_file, visited, scanned, scanvars, linkvars, callvars,
                    pagevars, catvars, clonevars, local_path, github_url >>

InitSearch ==
    /\ pc = "search"
    /\ \E p \in Platforms : settings_folder = p.folder /\ ossep = p.sep
    /\ words = << << "f", "o", "o" >>, << "o" >> >>
    /\ file_content = << >>
    /\ hit_counts = << >>
    /\ pending = << >>
    /\ ndirs = 0
    /\ nfiles = 0
    /\ repo_totals = << >>
    /\ matches_file = << >>
    /\ repos_file = << >>
    /\ visited = << >>
    /\ scanned = << >>
    /\ flushes = << >>
    /\ handles = NoHandles
    /\ local_path = << >>
    /\ github_url = << >>
    /\ NoPages
    /\ state = NoState
    /\ NoLinks
    /\ NoCatalog
    /\ NoClone

NextSearch ==
    \/ OpenReports
    \/ Walk
    \/ ScanFault
    \/ Finish

SpecSearch == InitSearch /\ [][NextSearch]_vars
\* the hits an independent count finds in a scanned file, word by word
WordHits(scan, i) == NonOverlapping(scan.content, words[i])

RECURSIVE SumTo(_, _)
SumTo(f, n) == IF n = 0 THEN 0 ELSE f[n] + SumTo(f, n - 1)

\* the sum of f over the indices 1..Len(f)
Sum(f) == SumTo(f, Len(f))

TotalHits(scan) == Sum([i \in DOMAIN words |-> WordHits(scan, i)])

RowsOfFile(filename) ==
    Cardinality({i \in DOMAIN matches_file.rows :
                    matches_file.rows[i].filename = filename})

RowsOfFolder(path) ==
    Cardinality({i \in DOMAIN repos_file.rows : repos_file.rows[i].folder = path})

\* the directories for which the walk opened an accumulator
Opened == {i \in DOMAIN visited :
              /\ ~Contains(visited[i].root, << "\\", "vendor", "\\" >>)
              /\ repo_folder(visited[i].root)}

\* the scans whose hits went to the accumulator opened at visit i: those
\* made from there on and before the next of the accumulators was opened
Accumulated(i, opened) ==
    {k \in DOMAIN scanned :
        /\ scanned[k].at >= i
        /\ \A j \in opened : j > i => scanned[k].at < j}

AccumulatedTotal(i, opened, totals) ==
    Sum([n \in 1..Len(scanned) |->
            IF n \in Accumulated(i, opened) THEN totals[n] ELSE 0])

Under(path) ==
    {k \in DOMAIN scanned : StartsWith(scanned[k].filename, path \o << ossep >>)}

HitsUnder(path, i) ==
    Sum([n \in 1..Len(scanned) |->
            IF n \in Under(path) THEN WordHits(scanned[n], i) ELSE 0])

TotalUnder(path) ==
    Sum([n \in 1..Len(scanned) |->
            IF n \in Under(path) THEN TotalHits(scanned[n]) ELSE 0])

\* C4: when search_repos is over, every row of repos.csv is the row of one
\* repository, a folder two levels below the cache root, and its counts and
\* total are the sums over the scanned files under that folder, whatever
\* files sit in the cache root or in an organization's folder.
C4_RowsOwnTheirFiles ==
    pc = "done" =>
        \A r \in DOMAIN repos_file.rows :
            LET row == repos_file.rows[r]
            IN  /\ \E i \in DOMAIN visited :
                      visited[i].depth = 2 /\ visited[i].root = row.folder
                /\ \A i \in DOMAIN words : row.counts[i] = HitsUnder(row.folder, i)
                /\ row.total = TotalUnder(row.folder)

\* C8: repo_folder holds of a directory the walk visits exactly when the
\* directory is two levels below the cache root.
C8_RootsAreTwoLevelsDown ==
    \A i \in DOMAIN visited :
        repo_folder(visited[i].root) <=> (visited[i].depth = 2)
(***************************************************************************)
(* utils.github_rest_api, called on its own: a caller makes a few calls    *)
(* with one state object (or none), and the server answers each GET with   *)
(* or without either of the rate-limit headers.                            *)
(***************************************************************************)
MaxCalls == 2

RateHeaderNames == {"X-RateLimit-Limit", "X-RateLimit-Remaining"}

\* the rate-limit headers a response may carry
RateHeaderSets ==
    UNION {{h \in [present -> {"60", "59", "0"}] :
               \A n \in present : (h[n] = "60") <=> (n = "X-RateLimit-Limit")}
           : present \in SUBSET RateHeaderNames}

RestResponses ==
    {[status_code |-> code, text |-> ErrorBody, headers |-> h, page |-> 0, next |-> 0]
        : code \in {200, 502}, h \in RateHeaderSets}

RestEndpoints == {None, << "/", "x" >>}

\* one call of github_rest_api(endpoint=ep, state=state)
RestCall(ep, resp) ==
    /\ pc = "rest"
    /\ ncalls < MaxCalls
    /\ LET r == github_rest_api(ep, state, resp)
       IN  /\ state' = r.state
           /\ requests' = requests \o r.sent
           /\ served' = IF r.sent = << >> THEN served ELSE Append(served, r.response)
           /\ console' = console \cup r.printed
    /\ endpoint' = ep
    /\ state_at_call' = state
    /\ ncalls' = ncalls + 1
    /\ UNCHANGED << pc, page_endpoint, payload, listing, pagelinks, linkvars,
                    beyond_api >>

InitRest ==
    /\ pc = "rest"
    /\ NoPages
    /\ NoLinks
    /\ NoCatalog
    /\ NoClone
    /\ NoScan
    /\ NoWalk

NextRest == \E ep \in RestEndpoints, resp \in RestResponses : RestCall(ep, resp)

SpecRest == InitRest /\ [][NextRest]_vars

\* the number a header of the model's responses writes
Numeral(s) == CASE s = "60" -> 60 [] s = "59" -> 59 [] s = "0" -> 0

\* C11: after a call of github_rest_api with a state object that got a
\* response, the state's limit and remaining are the two header values when
\* the response carries both headers, and 999999 and 999999 when it lacks
\* either; the call returns the response in both cases.
C11_RateLimitPair ==
    (pc = "rest" /\ ncalls > 0 /\ state.present /\ ~Falsy(endpoint)) =>
        LET h == Last(served).headers
        IN  IF RateHeaderNames \subseteq DOMAIN h
            THEN /\ state.last_ratelimit = Numeral(h["X-RateLimit-Limit"])
                 /\ state.last_remaining = Numeral(h["X-RateLimit-Remaining"])
            ELSE /\ state.last_ratelimit = 999999
                 /\ state.last_remaining = 999999

\* a state object that held fresh values gets a response carrying the limit
\* header only, and holds both sentinels afterwards
C11_Witness ==
    /\ pc = "rest" /\ ncalls = 2 /\ state.present /\ ~Falsy(endpoint)
    /\ state_at_call.last_ratelimit = 60 /\ state_at_call.last_remaining = 59
    /\ DOMAIN Last(served).headers = {"X-RateLimit-Limit"}
    /\ state.last_ratelimit = 999999 /\ state.last_remaining = 999999
\* C12: a call of repolist with refresh off and a cache file present makes
\* no API call, leaves the file as it was and returns the catalog of the
\* file's listing; any other call makes one API call, leaves the fetched
\* listing in the cache file, empty or not, and returns its catalog.
C12_CacheOrRefresh ==
    pc = "returned" =>
        IF ~refresh_arg /\ cache_at_call.exists
        THEN /\ api_calls = 0
             /\ cachefile = cache_at_call
             /\ catalog = Transform(cache_at_call.data)
        ELSE /\ api_calls = 1
             /\ cachefile = [exists |-> TRUE, data |-> repodata]
             /\ catalog = Transform(repodata)
\* org/repo is on a line of skiplist.txt, case ignored
SkipListed(repo) ==
    \E line \in skipfile : Lower(line) = Lower(Org \o << "/" >> \o repo)

\* a step in which the loop of org_clone dealt with the repository at idx
LoopStep == pc = "loop" /\ idx <= Len(catalog) /\ (idx' # idx \/ pc' = "halted")

\* C13: the loop of org_clone calls the clone operation for the repository
\* it has reached exactly when org/repo is not skip-listed, case ignored,
\* and the run overwrites or the target is not a non-empty directory.
C13_CloneDecision ==
    [][LoopStep =>
        LET repo == catalog[idx][1]
            called == /\ Len(cloned') = Len(cloned) + 1
                      /\ Last(cloned').repo = repo
                      /\ Last(cloned').run = Len(modes)
        IN  /\ called <=> (~SkipListed(repo) /\ (overwrite \/ folders[repo] # "nonempty"))
            /\ ~called => cloned' = cloned]_vars

\* the second run, without overwrite, has cloned into a folder it found
\* empty and has passed over a skip-listed repository whose folder is absent
C13_Witness ==
    /\ pc = "ended" /\ Len(modes) = 2 /\ ~overwrite
    /\ \E r, q \in RepoNames :
          /\ folders_after_first[r] = "empty"
          /\ \E i \in DOMAIN cloned : cloned[i].run = 2 /\ cloned[i].repo = r
          /\ SkipListed(q) /\ folders[q] = "absent"
          /\ \E i \in DOMAIN catalog : catalog[i][1] = q
          /\ \A i \in DOMAIN cloned : cloned[i].repo # q
RECURSIVE Successes(_)
Successes(calls) ==
    IF calls = << >> THEN << >>
    ELSE (IF Head(calls).ok THEN << Head(calls) >> ELSE << >>) \o Successes(Tail(calls))

\* the log file is its header followed by one row for each clone that
\* succeeded, in the order of the clones
LogMatchesClones ==
    IF ~logfile.exists THEN cloned = << >>
    ELSE LET done == Successes(cloned)
         IN  /\ Len(logfile.data) = 1 + Len(done)
             /\ logfile.data[1] = LogHeader
             /\ \A i \in DOMAIN done :
                   /\ logfile.data[i + 1].repo = done[i].repo
                   /\ logfile.data[i + 1].run = done[i].run
                   /\ logfile.data[i + 1].org = Org

\* what the log file holds is still there, unchanged, after the step
LogKept ==
    logfile.exists =>
        /\ logfile'.exists
        /\ Len(logfile'.data) >= Len(logfile.data)
        /\ SubSeq(logfile'.data, 1, Len(logfile.data)) = logfile.data

\* C14: over the runs of org_clone, overwriting or not, the log file gains
\* one row for each clone that succeeds, in clone order, and none for a
\* repository skipped or a clone that failed; the header and the rows
\* written are never changed or removed.
C14_LogAppendOnly == [](LogMatchesClones) /\ [][LogKept]_vars

\* after a run that cloned and a second, overwriting run that cloned again
\* and then met a failing clone, the log holds rows of both runs
C14_Witness ==
    /\ pc = "halted" /\ Len(modes) = 2 /\ overwrite
    /\ \E i, j \in DOMAIN logfile.data :
          i < j /\ logfile.data[i].run = 1 /\ logfile.data[j].run = 2
    /\ \E i \in DOMAIN cloned : ~cloned[i].ok
    /\ LogMatchesClones
\* the step is a call of the clone operation that fails
CloneFails == Len(cloned') = Len(cloned) + 1 /\ ~Last(cloned').ok

\* no clone call follows a failed one within a batch
NoCloneAfterFailure ==
    \A i, j \in DOMAIN cloned :
        (i < j /\ ~cloned[i].ok) => batch_of[cloned[i].run] # batch_of[cloned[j].run]

\* C15: a failing clone ends org_clone and the batch: no clone is attempted
\* afterwards in that batch, for that repository, a later one or a later
\* organization, and the log and the folders of the other repositories are
\* as they were before the failing call.
C15_FailureHalts ==
    /\ [](NoCloneAfterFailure)
    /\ [][CloneFails =>
            /\ pc' = "halted"
            /\ logfile' = logfile
            /\ \A r \in RepoNames : r # Last(cloned').repo => folders'[r] = folders[r]]_vars
    /\ [][pc = "halted" => (pc' = "halted" \/ Last(batch_of') # Last(batch_of))]_vars

\* a batch of two organizations: the first run cloned a repository, the
\* second, in the same batch, met a failing clone, and the batch is over
\* with the first run's row in the log
C15_Witness ==
    /\ pc = "halted" /\ Len(modes) = 2 /\ batch_of = << 1, 1 >>
    /\ \E i \in DOMAIN cloned : cloned[i].run = 1 /\ cloned[i].ok
    /\ ~Last(cloned).ok /\ Last(cloned).run = 2
    /\ \E i \in DOMAIN logfile.data : logfile.data[i].run = 1
(***************************************************************************)
(* utils.file_url, called on its own for a file or folder of a repository  *)
(* under a cache root                                                      *)
(***************************************************************************)
UrlRoots ==
    {<< "/", "cache" >>, << "/", "srv", "/", "gh", "/", "cache1" >>,
     << "c:", "\\", "cache" >>, << "c:", "\\", "srv", "\\", "gh", "\\", "cache" >>}

\* <path> below the repository folder, name by name
RepoPaths ==
    {<< >>, << << "a", ".go" >> >>, << << "src" >>, << "a", ".go" >> >>,
     << << "src" >>, << "vendor" >>, << "b", ".GO" >> >>, << << "src" >> >>}

LocalPaths ==
    [root : UrlRoots, org : {"orgA", "orgB"}, repo : {"repo1", "cache"},
     path : RepoPaths]

\* the separator of the platform the root is on
SepOf(root) == IF Head(root) = "c:" THEN "\\" ELSE "/"

RECURSIVE JoinAll(_, _, _)
JoinAll(base, names, sep) ==
    IF names = << >> THEN base
    ELSE JoinAll(base \o << sep >> \o Head(names), Tail(names), sep)

\* <cache_root>/<org>/<repo>/<path> with the platform's separator
LocalName(local) ==
    JoinAll(local.root, << << local.org >>, << local.repo >> >> \o local.path,
            SepOf(local.root))

FileUrl ==
    /\ pc = "url"
    /\ github_url' = file_url(Spell(LocalName(local_path)))
    /\ pc' = "returned"
    /\ UNCHANGED << local_path, settings_folder, ossep, pending, ndirs, nfiles,
                    repo_totals, matches_file, repos_file, visited, scanned, flushes,
                    handles, scanvars, linkvars, callvars, pagevars, catvars,
                    clonevars >>

InitUrl ==
    /\ pc = "url"
    /\ local_path \in LocalPaths
    /\ settings_folder = local_path.root
    /\ ossep = SepOf(local_path.root)
    /\ github_url = << >>
    /\ pending = << >>
    /\ ndirs = 0
    /\ nfiles = 0
    /\ repo_totals = << >>
    /\ matches_file = << >>
    /\ repos_file = << >>
    /\ visited = << >>
    /\ scanned = << >>
    /\ flushes = << >>
    /\ handles = NoHandles
    /\ NoPages
    /\ state = NoState
    /\ NoLinks
    /\ NoCatalog
    /\ NoClone
    /\ NoScan

NextUrl == FileUrl

SpecUrl == InitUrl /\ [][NextUrl]_vars

\* https://github.com/<org>/<repo>, followed by /blob/master/<path> unless
\* <path> is empty
ExpectedUrl(local) ==
    GitHubCom \o Spell(<< local.org, "/", local.repo >>)
        \o (IF local.path = << >> THEN << >>
            ELSE BlobMaster \o Spell(JoinAll(Head(local.path), Tail(local.path), "/")))

\* C16: for every cache root and every file or folder of a repository under
\* it, file_url returns https://github.com/<org>/<repo>/blob/master/<path>,
\* and the bare https://github.com/<org>/<repo> for the repository folder.
C16_UrlOfLocalPath ==
    pc = "returned" => github_url = ExpectedUrl(local_path)
Excluded == {"vendor", ".git", ".github"}

\* the file is in or below a directory with an excluded name
InExcluded(filename) == \E i \in DOMAIN filename : filename[i] \in Excluded

\* C17: every file search_repos scans, writes to matches.csv or adds to a
\* repository's totals has an extension of the allow-list (case ignored) and
\* is neither in nor below a directory named vendor, .git or .github.
C17_Exclusions ==
    /\ \A k \in DOMAIN scanned :
          /\ Lower(<< Last(scanned[k].filename) >>) \in FileTypes
          /\ ~InExcluded(scanned[k].filename)
    /\ pc \in {"walk", "done"} =>
          \A r \in DOMAIN matches_file.rows : ~InExcluded(matches_file.rows[r].filename)
(***************************************************************************)
(* utils.github_allpages against any server, a faulty one with a cyclic    *)
(* listing included.  The collector is a sequential program: it keeps      *)
(* taking the next step it can take.                                       *)
(***************************************************************************)
LoopListings == {lst \in Listings : lst.shape = "only"} \cup CyclicListings

InitLoop ==
    /\ InitPages
    /\ state = NoState

NextLoop ==
    \/ \E ep \in EndpointArgs, lst \in LoopListings : Call(ep, lst)
    \/ Iterate
    \/ Return

SpecLoop == InitLoop /\ [][NextLoop]_vars /\ WF_vars(Iterate) /\ WF_vars(Return)

\* a response received advertised no next link
NoNextServed == \E i \in DOMAIN served : served[i].next = 0

\* the loop is left only on a response that advertises no next link, the
\* first such response received
LeftOnNoNext ==
    pc \in {"done", "returned"} =>
        /\ served # << >>
        /\ Last(served).next = 0
        /\ \A i \in 1..(Len(served) - 1) : served[i].next # 0

\* C18: github_allpages returns exactly when the server has sent a response
\* advertising no next link, right after the first such response; while
\* every response advertises a next link, as on a cyclic listing, it goes
\* on fetching and returns nothing.
C18_ReturnsIffNoNext ==
    /\ [](LeftOnNoNext)
    /\ (NoNextServed ~> pc = "returned")

\* on a cyclic listing of two pages the collector has come back to the
\* first page, is still in its loop and has returned nothing
C18_Witness ==
    /\ listing.cyclic /\ listing.npages = 2 /\ pc = "loop"
    /\ ~NoNextServed
    /\ \E i, j \in DOMAIN served : i < j /\ served[i].page = served[j].page
(***************************************************************************)
(* github_pagination: the page number of a link                            *)
(***************************************************************************)

\* C19: for every link of the header parsed, the page value stored for its
\* relation is the value of the page query parameter of the link's URL,
\* wherever that parameter stands among the URL's parameters.
C19_PageIsPageParameter ==
    ncalls >= 1 =>
        \A r \in Named :
            pagelinks[PageKey(r)] = << PageStr(LinkPages(linkspec.k, linkspec)[r]) >>
(***************************************************************************)
(* search.search_repos: the life of a repository's accumulator             *)
(***************************************************************************)

\* the calls of write_repo that flushed the accumulator of the root at visit i
FlushesOf(i) == {f \in DOMAIN flushes : flushes[f].data[FolderKey] = visited[i].root}

\* the visit that opened the accumulator after the one of visit i, 0 if none
NextOpened(i, opened) ==
    IF \E j \in opened : j > i
    THEN CHOOSE j \in opened : j > i /\ \A n \in opened : n > i => j <= n
    ELSE 0

\* the one accumulator open during the walk is that of the root opened last
OneOpen(opened, totals) ==
    pc = "walk" =>
        /\ DOMAIN repo_totals = DOMAIN empty_repo_totals
        /\ \A i \in opened :
              NextOpened(i, opened) = 0 =>
                  /\ repo_totals[FolderKey] = visited[i].root
                  /\ repo_totals[TotalKey] = AccumulatedTotal(i, opened, totals)
        /\ opened = {} => Falsy(repo_totals[FolderKey])

\* the accumulator of visit i is flushed once, when the next root is met or
\* at the end of the walk, holding what was added to it until then
FlushedOnce(i, opened, totals) ==
    LET next == NextOpened(i, opened)
        mine == FlushesOf(i)
    IN  IF next = 0 /\ pc = "walk"
        THEN mine = {}
        ELSE /\ Cardinality(mine) = 1
             /\ \A f \in mine :
                   /\ flushes[f].last = (next = 0)
                   /\ flushes[f].at = IF next = 0 THEN Len(visited) + 1 ELSE next
                   /\ flushes[f].data[TotalKey] = AccumulatedTotal(i, opened, totals)
                   /\ \A k \in Accumulated(i, opened) : scanned[k].at < flushes[f].at

\* C20: during the walk one accumulator is open, that of the repository root
\* met last; the accumulator opened for a root is flushed exactly once, when
\* the next root is met (with what it held before that root's accumulator
\* was opened) or at the end of the walk, and what is scanned after its
\* flush is added to another accumulator.
C20_AccumulatorLifecycle ==
    pc \in {"walk", "done"} =>
        LET totals == [k \in DOMAIN scanned |-> TotalHits(scanned[k])]
            opened == Opened
        IN  /\ OneOpen(opened, totals)
            /\ \A i \in opened : FlushedOnce(i, opened, totals)

\* a finished walk through two repositories with hits in both: the first
\* was flushed when the second was met, the second at the end
C20_Witness ==
    /\ pc = "done"
    /\ Len(flushes) = 2
    /\ ~flushes[1].last /\ flushes[1].data[TotalKey] >= 1
    /\ flushes[2].last /\ flushes[2].data[TotalKey] >= 1
    /\ \E k \in DOMAIN scanned : scanned[k].at >= flushes[1].at
(***************************************************************************)
(* search.search_repos: the report files on every way out                  *)
(***************************************************************************)

\* C21: when search_repos has been left, normally or by a fault raised
\* while scanning a file, both report files it opened have been closed.
C21_HandlesClosed ==
    pc \in {"done", "fault"} =>
        handles.matches = "closed" /\ handles.repos = "closed"

(***************************************************************************)
(* search.search_repos: the folders of the rows of repos.csv               *)
(***************************************************************************)

\* the folders the walk recognised as repository roots
Roots == {visited[i].root : i \in Opened}

\* C22: every row of repos.csv has a folder that the walk recognised as a
\* repository root, never the empty folder of the first accumulator, and
\* no root has more than one row, whatever the tree holds above the roots.
C22_RowsNameRoots ==
    pc \in {"walk", "done", "fault"} =>
        /\ \A r \in DOMAIN repos_file.rows :
              /\ repos_file.rows[r].folder # empty_repo_totals[FolderKey]
              /\ repos_file.rows[r].folder \in Roots
        /\ \A path \in Roots : RowsOfFolder(path) <= 1
====
